---- MODULE Spec2Model ----
(***************************************************************************)
(* Model of the pod file explorer of                                       *)
(*   packages/core/src/renderer/components/node-pod-menu/                  *)
(*   pod-file-explorer-menu.tsx                                            *)
(* The file holds two FileExplorerDialog components: the execFile-based    *)
(* one (lines 591-902, specification Spec) and the sendCommand-based one   *)
(* (lines 140-372, specification SpecSend).                                *)
(*                                                                         *)
(* JavaScript strings are sequences of one-character strings, so that      *)
(* splitting, trimming, joining and parseInt are computed and not assumed. *)
(* An optional value (x?: T, T | null) is <<>> when undefined/null and     *)
(* <<v>> when it holds v.                                                  *)
(***************************************************************************)
EXTENDS Integers, Sequences, FiniteSets, TLC

VARIABLES
    open,       \* showExplorer && selectedContainer: the dialog is mounted
    cluster,    \* the dialog's `cluster` prop is defined
    rootFiles,  \* useState<FileEntry[]>([])
    loading,    \* useState(false): the session-level loading flag
    error,      \* useState<string | null>(null): the session-level error
    calls,      \* the async handler invocations suspended at their await
    issued,     \* per path: listing commands handed to the command runner
    loaded,     \* paths of the nodes of rootFiles that got a listing applied
    errSrc,     \* the path whose failed listing wrote the current `error`
    lastOk,     \* the paths whose most recent completed listing succeeded
    late,       \* the paths whose listing completed when no node had the path
    race,       \* SpecRace only: the two concurrent loads under observation
    alerts,     \* the texts downloadFile has shown with alert(), in order
    arg,        \* SpecQuote, SpecParse: the argument of the function under study
    res         \* SpecQuote, SpecParse: what the function returned for it

vars == <<open, cluster, rootFiles, loading, error, calls, issued, loaded,
          errSrc, lastOk, late, race, alerts, arg, res>>

-----------------------------------------------------------------------------
(* Bounds of the model *)

\* listing commands issued in one browsing session of the execFile-based dialog
MaxRequests == 4

\* loadChildren calls in one browsing session of the sendCommand-based dialog
MaxSendLoads == 2

\* downloadFile calls in a behaviour of SpecDownload
MaxDownloads == 1

\* listing commands issued in one browsing session of SpecDownload
MaxDownloadRequests == 2

-----------------------------------------------------------------------------
(* Optional values *)

Undefined == <<>>
Some(v) == <<v>>
IsDefined(o) == o # <<>>
\* JavaScript truthiness of an optional boolean
Truthy(o) == o = <<TRUE>>

-----------------------------------------------------------------------------
(* String primitives used by parseListOutput *)

IsWhitespace(c) == c \in {" ", "\t", "\r", "\n"}

IsDigit(c) == c \in {"0", "1", "2", "3", "4", "5", "6", "7", "8", "9"}

DigitValue(c) ==
    CASE c = "0" -> 0 [] c = "1" -> 1 [] c = "2" -> 2 [] c = "3" -> 3
      [] c = "4" -> 4 [] c = "5" -> 5 [] c = "6" -> 6 [] c = "7" -> 7
      [] c = "8" -> 8 [] c = "9" -> 9

\* index of the first whitespace character of s at or after i, else Len(s)+1
RECURSIVE FirstWhitespace(_, _)
FirstWhitespace(s, i) ==
    IF i > Len(s) THEN Len(s) + 1
    ELSE IF IsWhitespace(s[i]) THEN i
    ELSE FirstWhitespace(s, i + 1)

\* index of the first non-whitespace character of s at or after i, else Len(s)+1
RECURSIVE FirstNonWhitespace(_, _)
FirstNonWhitespace(s, i) ==
    IF i > Len(s) THEN Len(s) + 1
    ELSE IF ~IsWhitespace(s[i]) THEN i
    ELSE FirstNonWhitespace(s, i + 1)

\* index of the first "\n" of s at or after i, else Len(s)+1
RECURSIVE FirstNewline(_, _)
FirstNewline(s, i) ==
    IF i > Len(s) THEN Len(s) + 1
    ELSE IF s[i] = "\n" THEN i
    ELSE FirstNewline(s, i + 1)

\* String.prototype.split("\n")
RECURSIVE splitLines(_)
splitLines(s) ==
    LET i == FirstNewline(s, 1) IN
    IF i > Len(s) THEN <<s>>
    ELSE <<SubSeq(s, 1, i - 1)>> \o splitLines(SubSeq(s, i + 1, Len(s)))

\* String.prototype.trim()
RECURSIVE trimEnd(_)
trimEnd(s) ==
    IF s # <<>> /\ IsWhitespace(s[Len(s)]) THEN trimEnd(SubSeq(s, 1, Len(s) - 1))
    ELSE s

trim(s) == trimEnd(SubSeq(s, FirstNonWhitespace(s, 1), Len(s)))

\* String.prototype.startsWith
startsWith(s, prefix) ==
    /\ Len(s) >= Len(prefix)
    /\ SubSeq(s, 1, Len(prefix)) = prefix

\* String.prototype.split(/\s+/): the pieces between the maximal runs of
\* whitespace; a leading or trailing run leaves an empty piece
RECURSIVE splitWhitespace(_)
splitWhitespace(s) ==
    LET i == FirstWhitespace(s, 1) IN
    IF i > Len(s) THEN <<s>>
    ELSE LET j == FirstNonWhitespace(s, i) IN
         <<SubSeq(s, 1, i - 1)>> \o splitWhitespace(SubSeq(s, j, Len(s)))

\* Array.prototype.join(""): the parts without a separator
RECURSIVE joinSpace_NoSeparator(_)
joinSpace_NoSeparator(parts) ==
    IF parts = <<>> THEN <<>>
    ELSE parts[1] \o joinSpace_NoSeparator(Tail(parts))

\* Array.prototype.join(" ")
RECURSIVE joinSpace(_)
joinSpace(parts) ==
    IF parts = <<>> THEN <<>>
    ELSE IF Len(parts) = 1 THEN parts[1]
    ELSE parts[1] \o <<" ">> \o joinSpace(Tail(parts))

\* value of the digits s[i..], read left to right onto acc, up to the first non-digit
RECURSIVE DigitsValue(_, _, _)
DigitsValue(s, i, acc) ==
    IF i > Len(s) \/ ~IsDigit(s[i]) THEN acc
    ELSE DigitsValue(s, i + 1, 10 * acc + DigitValue(s[i]))

\* parseInt(s, 10): leading whitespace, an optional sign, then the longest
\* prefix of digits; NaN (Undefined here) when there is no digit
parseInt(s) ==
    LET t == SubSeq(s, FirstNonWhitespace(s, 1), Len(s))
        signed == t # <<>> /\ t[1] \in {"+", "-"}
        d == IF signed THEN Tail(t) ELSE t
    IN IF d = <<>> \/ ~IsDigit(d[1]) THEN Undefined
       ELSE IF signed /\ t[1] = "-" THEN Some(0 - DigitsValue(d, 1, 0))
       ELSE Some(DigitsValue(d, 1, 0))

Slash == <<"/">>
Total == <<"t", "o", "t", "a", "l">>
Dot == <<".">>
DotDot == <<".", ".">>

-----------------------------------------------------------------------------
(* parseListOutput of the execFile-based dialog *)

\* the callback of .map((line): FileEntry | null => ...); null is Undefined
parseLine(line, basePath) ==
    LET parts == splitWhitespace(line) IN
    IF Len(parts) < 9 THEN Undefined
    ELSE LET permissions == parts[1]
             name == joinSpace(SubSeq(parts, 9, Len(parts)))
             isDirectory == startsWith(permissions, <<"d">>)
             size == parseInt(parts[5])
             fullPath == IF basePath = Slash THEN Slash \o name
                         ELSE basePath \o Slash \o name
         IN IF name = Dot \/ name = DotDot THEN Undefined
            ELSE Some([name |-> name,
                       path |-> fullPath,
                       isDirectory |-> isDirectory,
                       size |-> IF isDirectory THEN Undefined ELSE size,
                       permissions |-> permissions,
                       expanded |-> FALSE,
                       children |-> IF isDirectory THEN Some(<<>>) ELSE Undefined,
                       loading |-> Undefined])

\* parseLines without `.map((line) => line.trim())`
RECURSIVE parseLines_NoTrim(_, _)
parseLines_NoTrim(lines, basePath) ==
    IF lines = <<>> THEN <<>>
    ELSE LET line == Head(lines)
             rest == parseLines_NoTrim(Tail(lines), basePath)
         IN IF Len(line) > 0 /\ ~startsWith(line, Total)
            THEN parseLine(line, basePath) \o rest
            ELSE rest

RECURSIVE parseLines(_, _)
parseLines(lines, basePath) ==
    IF lines = <<>> THEN <<>>
    ELSE LET line == trim(Head(lines))
             rest == parseLines(Tail(lines), basePath)
         IN IF Len(line) > 0 /\ ~startsWith(line, Total)
            THEN parseLine(line, basePath) \o rest
            ELSE rest

\* output: the raw text, or Undefined for a response that is no string
parseListOutput(output, basePath) ==
    IF ~IsDefined(output) \/ output[1] = <<>> THEN <<>>
    ELSE parseLines(splitLines(output[1]), basePath)

-----------------------------------------------------------------------------
(* The remote target: what `ls -la -- <path>` may answer *)

\* one line of `ls -la`: permissions, links, owner, group, size, month, day,
\* time, name
LsLine(permissions, size, name) ==
    joinSpace(<<permissions, <<"1">>, <<"r">>, <<"r">>, size,
                <<"J">>, <<"1">>, <<"0">>, name>>)

RECURSIVE joinLines(_)
joinLines(lines) ==
    IF lines = <<>> THEN <<>>
    ELSE IF Len(lines) = 1 THEN lines[1]
    ELSE lines[1] \o <<"\n">> \o joinLines(Tail(lines))

DirPerm == <<"d", "r", "w", "x">>
FilePerm == <<"-", "r", "w">>

PathA == <<"/", "a">>
PathB == <<"/", "b">>
PathAC == <<"/", "a", "/", "c">>

\* the paths a listing command is issued for in the model
PathUniverse == {Slash, PathA, PathB, PathAC}

\* `ls -la -- "/"`: a summary line, the dot entries, two directories, a file
ListingRoot ==
    joinLines(<< <<"t", "o", "t", "a", "l", " ", "8">>,
                 LsLine(DirPerm, <<"6", "4">>, <<".">>),
                 LsLine(DirPerm, <<"6", "4">>, <<".", ".">>),
                 LsLine(DirPerm, <<"6", "4">>, <<"a">>),
                 LsLine(DirPerm, <<"6", "4">>, <<"b">>),
                 LsLine(FilePerm, <<"1", "2", "0">>, <<"f">>) >>)

\* `ls -la -- "/"` after "/b" and "/f" were removed; ends with a newline
ListingRootShort ==
    joinLines(<< LsLine(DirPerm, <<"6", "4">>, <<"a">>), <<>> >>)

\* `ls -la -- "/a"`: a directory, a line of an error message, a file
ListingA ==
    joinLines(<< <<"t", "o", "t", "a", "l", " ", "4">>,
                 LsLine(DirPerm, <<"6", "4">>, <<"c">>),
                 <<"l", "s", ":", " ", "x">>,
                 LsLine(FilePerm, <<"7">>, <<"g">>) >>)

\* `ls -la` of a directory without entries
ListingEmpty == <<"t", "o", "t", "a", "l", " ", "0", "\n">>

\* `ls -la -- "/b"`: one file with a space in its name
ListingB == LsLine(FilePerm, <<"0">>, <<"h", " ", "i">>)

\* `ls -la -- "/"` after the directory "/b" was replaced by a file "/b"
ListingRootFileB ==
    joinLines(<< LsLine(DirPerm, <<"6", "4">>, <<"a">>),
                 LsLine(FilePerm, <<"5">>, <<"b">>) >>)

\* the texts execFile may deliver as result.response for a listing of path
Responses(path) ==
    IF path = Slash THEN {ListingRoot, ListingRootShort, ListingRootFileB}
    ELSE IF path = PathA THEN {ListingA, ListingEmpty}
    ELSE IF path = PathB THEN {ListingB}
    ELSE {<<>>}

\* what listFilesAtPath returns, for every path and every text its listing
\* may deliver: parseListOutput(output, path)
ListedFiles ==
    UNION { {[path |-> path, response |-> response,
              files |-> parseListOutput(Some(response), path)] :
                response \in Responses(path)} : path \in PathUniverse }

\* the return value of listFilesAtPath(path) when execKubectl gives response
listFilesAtPath(path, response) ==
    (CHOOSE l \in ListedFiles : l.path = path /\ l.response = response).files

\* result.error of an unsuccessful execFile call
Failures == { [stderr |-> "permission denied", message |-> "exit code 1"],
              [stderr |-> "", message |-> ""] }

\* what execKubectl throws for an unsuccessful result
kubectlFailure(e) ==
    IF e.stderr # "" THEN e.stderr
    ELSE IF e.message # "" THEN e.message
    ELSE "Failed to run kubectl"

ClusterNotAvailable == "Cluster not available. Ensure the cluster is connected."

-----------------------------------------------------------------------------
(* The tree updates of the execFile-based dialog *)

\* updateFiles of toggleExpand with `expanded: true` for `!file.expanded`
RECURSIVE toggleExpand_updateFiles_ExpandOnly(_, _)
toggleExpand_updateFiles_ExpandOnly(files, path) ==
    IF files = <<>> THEN <<>>
    ELSE LET file == Head(files)
             out == IF file.path = path
                      THEN [file EXCEPT !.expanded = TRUE]
                    ELSE IF IsDefined(file.children)
                      THEN [file EXCEPT !.children =
                               Some(toggleExpand_updateFiles_ExpandOnly(file.children[1], path))]
                    ELSE file
         IN <<out>> \o toggleExpand_updateFiles_ExpandOnly(Tail(files), path)

\* updateFiles of toggleExpand without the spread of `file`: the toggled
\* entry is built from its name, path and kind alone
RECURSIVE toggleExpand_updateFiles_NoSpread(_, _)
toggleExpand_updateFiles_NoSpread(files, path) ==
    IF files = <<>> THEN <<>>
    ELSE LET file == Head(files)
             out == IF file.path = path
                      THEN [file EXCEPT !.expanded = ~file.expanded,
                                        !.size = Undefined,
                                        !.permissions = Undefined]
                    ELSE IF IsDefined(file.children)
                      THEN [file EXCEPT !.children =
                               Some(toggleExpand_updateFiles_NoSpread(file.children[1], path))]
                    ELSE file
         IN <<out>> \o toggleExpand_updateFiles_NoSpread(Tail(files), path)

\* updateFiles of toggleExpand
RECURSIVE toggleExpand_updateFiles(_, _)
toggleExpand_updateFiles(files, path) ==
    IF files = <<>> THEN <<>>
    ELSE LET file == Head(files)
             out == IF file.path = path
                      THEN [file EXCEPT !.expanded = ~file.expanded]
                    ELSE IF IsDefined(file.children)
                      THEN [file EXCEPT !.children =
                               Some(toggleExpand_updateFiles(file.children[1], path))]
                    ELSE file
         IN <<out>> \o toggleExpand_updateFiles(Tail(files), path)

\* updateFiles of loadChildren with `path.startsWith(file.path)` for the test
\* of file.path: an ancestor of the path is marked and not descended into
RECURSIVE loadChildren_updateFiles_PrefixMatch(_, _)
loadChildren_updateFiles_PrefixMatch(files, path) ==
    IF files = <<>> THEN <<>>
    ELSE LET file == Head(files)
             out == IF startsWith(path, file.path)
                      THEN [file EXCEPT !.loading = Some(TRUE)]
                    ELSE IF IsDefined(file.children)
                      THEN [file EXCEPT !.children =
                               Some(loadChildren_updateFiles_PrefixMatch(file.children[1], path))]
                    ELSE file
         IN <<out>> \o loadChildren_updateFiles_PrefixMatch(Tail(files), path)

\* updateFiles of loadChildren
RECURSIVE loadChildren_updateFiles(_, _)
loadChildren_updateFiles(files, path) ==
    IF files = <<>> THEN <<>>
    ELSE LET file == Head(files)
             out == IF file.path = path
                      THEN [file EXCEPT !.loading = Some(TRUE)]
                    ELSE IF IsDefined(file.children)
                      THEN [file EXCEPT !.children =
                               Some(loadChildren_updateFiles(file.children[1], path))]
                    ELSE file
         IN <<out>> \o loadChildren_updateFiles(Tail(files), path)

\* updateFilesWithChildren without the descent into file.children: only a
\* top-level entry is ever updated
RECURSIVE updateFilesWithChildren_TopLevelOnly(_, _, _)
updateFilesWithChildren_TopLevelOnly(files, path, children) ==
    IF files = <<>> THEN <<>>
    ELSE LET file == Head(files)
             out == IF file.path = path
                      THEN [file EXCEPT !.children = Some(children),
                                        !.loading = Some(FALSE)]
                    ELSE file
         IN <<out>> \o updateFilesWithChildren_TopLevelOnly(Tail(files), path, children)

\* updateFilesWithChildren that merges: an entry that holds a non-empty
\* children array keeps it
RECURSIVE updateFilesWithChildren_KeepPrevious(_, _, _)
updateFilesWithChildren_KeepPrevious(files, path, children) ==
    IF files = <<>> THEN <<>>
    ELSE LET file == Head(files)
             out == IF file.path = path
                      THEN [file EXCEPT !.children =
                               IF IsDefined(file.children) /\ file.children[1] # <<>>
                               THEN file.children ELSE Some(children),
                                        !.loading = Some(FALSE)]
                    ELSE IF IsDefined(file.children)
                      THEN [file EXCEPT !.children =
                               Some(updateFilesWithChildren_KeepPrevious(file.children[1], path, children))]
                    ELSE file
         IN <<out>> \o updateFilesWithChildren_KeepPrevious(Tail(files), path, children)

\* updateFilesWithChildren of loadChildren
RECURSIVE updateFilesWithChildren(_, _, _)
updateFilesWithChildren(files, path, children) ==
    IF files = <<>> THEN <<>>
    ELSE LET file == Head(files)
             out == IF file.path = path
                      THEN [file EXCEPT !.children = Some(children),
                                        !.loading = Some(FALSE)]
                    ELSE IF IsDefined(file.children)
                      THEN [file EXCEPT !.children =
                               Some(updateFilesWithChildren(file.children[1], path, children))]
                    ELSE file
         IN <<out>> \o updateFilesWithChildren(Tail(files), path, children)

\* updateFilesOnError without the test of file.path: every entry is marked
RECURSIVE updateFilesOnError_EveryEntry(_, _)
updateFilesOnError_EveryEntry(files, path) ==
    IF files = <<>> THEN <<>>
    ELSE LET file == Head(files)
             marked == [file EXCEPT !.loading = Some(FALSE)]
             out == IF IsDefined(file.children)
                      THEN [marked EXCEPT !.children =
                               Some(updateFilesOnError_EveryEntry(file.children[1], path))]
                    ELSE marked
         IN <<out>> \o updateFilesOnError_EveryEntry(Tail(files), path)

\* the catch block of loadChildren without its setRootFiles call
updateFilesOnError_KeepLoading(files, path) ==
    files

\* updateFilesOnError of loadChildren
RECURSIVE updateFilesOnError(_, _)
updateFilesOnError(files, path) ==
    IF files = <<>> THEN <<>>
    ELSE LET file == Head(files)
             out == IF file.path = path
                      THEN [file EXCEPT !.loading = Some(FALSE)]
                    ELSE IF IsDefined(file.children)
                      THEN [file EXCEPT !.children =
                               Some(updateFilesOnError(file.children[1], path))]
                    ELSE file
         IN <<out>> \o updateFilesOnError(Tail(files), path)

-----------------------------------------------------------------------------
(* What the dialog renders *)

\* the entries that get a FileTreeNode: each entry of files, and the children
\* of an entry that is expanded and has a non-empty children array
RECURSIVE FileTreeNodes(_)
FileTreeNodes(files) ==
    IF files = <<>> THEN {}
    ELSE LET entry == Head(files) IN
         {entry}
         \cup (IF entry.expanded /\ IsDefined(entry.children) /\ Len(entry.children[1]) > 0
               THEN FileTreeNodes(entry.children[1]) ELSE {})
         \cup FileTreeNodes(Tail(files))

\* the tree is rendered when the session is not loading and rootFiles is not empty
RenderedEntries ==
    IF open /\ ~loading /\ Len(rootFiles) > 0 THEN FileTreeNodes(rootFiles) ELSE {}

\* every entry of a snapshot, rendered or not
RECURSIVE AllEntries(_)
AllEntries(files) ==
    IF files = <<>> THEN {}
    ELSE LET entry == Head(files) IN
         {entry}
         \cup (IF IsDefined(entry.children) THEN AllEntries(entry.children[1]) ELSE {})
         \cup AllEntries(Tail(files))

\* path is an ancestor directory of other ("/a" of "/a/c")
IsAncestor(path, other) ==
    /\ Len(other) > Len(path) + 1
    /\ SubSeq(other, 1, Len(path) + 1) = path \o Slash

-----------------------------------------------------------------------------
(* Bookkeeping of the suspended calls and of the observations *)

Requests == issued[Slash] + issued[PathA] + issued[PathB] + issued[PathAC]

\* a call of fn(path) suspended at its await; k tells equal calls apart
NewCall(fn, path) ==
    LET used == {c.k : c \in {d \in calls : d.fn = fn /\ d.path = path}}
        k == CHOOSE n \in 0..Cardinality(calls) : n \notin used
    IN [fn |-> fn, path |-> path, k |-> k]

\* the listing requests for path that have not completed
InFlight(path) == {c \in calls : c.path = path /\ c.fn # "downloadFile"}

\* the paths of loaded that a new children array for path does not replace
KeptBelow(path) == {q \in loaded : ~IsAncestor(path, q)}

-----------------------------------------------------------------------------
(* The execFile-based dialog.  loadChildren and toggleExpand are the dialog's *)
(* handlers, handed to every FileTreeNode as onLoadChildren and             *)
(* onToggleExpand: LoadChildren and ToggleExpand are one invocation of the   *)
(* handler for a rendered directory entry, Click is the button's onClick,    *)
(* which calls them under its own condition.                                 *)

\* no dialog is mounted and nothing is in flight or has been shown
Unmounted ==
    /\ open = FALSE
    /\ cluster = FALSE
    /\ rootFiles = <<>>
    /\ loading = FALSE
    /\ error = Undefined
    /\ calls = {}
    /\ issued = [p \in PathUniverse |-> 0]
    /\ loaded = {}
    /\ errSrc = Undefined
    /\ lastOk = {}
    /\ late = {}
    /\ race = Undefined
    /\ alerts = <<>>

Init ==
    /\ Unmounted
    /\ arg = Undefined
    /\ res = Undefined

\* loadRootFiles up to the await of execFile. Without a cluster execKubectl
\* throws before execFile is called, and the catch and finally blocks run
\* before any other handler can.
loadRootFiles ==
    IF cluster
    THEN /\ loading' = TRUE
         /\ error' = Undefined
         /\ errSrc' = Undefined
         /\ calls' = calls \cup {NewCall("loadRootFiles", Slash)}
         /\ issued' = [issued EXCEPT ![Slash] = @ + 1]
         /\ UNCHANGED <<rootFiles, loaded, lastOk>>
    ELSE /\ loading' = FALSE
         /\ error' = Some(ClusterNotAvailable)
         /\ errSrc' = Some(Slash)
         /\ rootFiles' = <<>>
         /\ loaded' = {}
         /\ lastOk' = lastOk \ {Slash}
         /\ UNCHANGED <<calls, issued>>

\* onMenuItemClick: the dialog mounts with fresh state and its effect runs
\* loadRootFiles
OpenExplorer ==
    /\ ~open
    /\ open' = TRUE
    /\ \E c \in BOOLEAN : cluster' = c
    /\ IF cluster'
       THEN /\ loading' = TRUE
            /\ calls' = calls \cup {[fn |-> "loadRootFiles", path |-> Slash, k |-> 0]}
            /\ issued' = [issued EXCEPT ![Slash] = 1]
            /\ UNCHANGED <<error, errSrc>>
       ELSE /\ loading' = FALSE
            /\ error' = Some(ClusterNotAvailable)
            /\ errSrc' = Some(Slash)
            /\ UNCHANGED <<calls, issued>>
    /\ UNCHANGED <<rootFiles, loaded, lastOk, late>>

\* NonInjectablePodFileExplorerMenu renders again: `new Pod(object)` is a new
\* object, so listFilesAtPath and loadRootFiles are new callbacks and the
\* effect that depends on loadRootFiles runs again
ParentRerender ==
    /\ open
    /\ cluster => Requests < MaxRequests
    /\ loadRootFiles
    /\ UNCHANGED <<open, cluster, late>>

\* a listing of "/" returns successfully: the rest of loadRootFiles
RootListingSucceeds(call, response) ==
    /\ call.fn = "loadRootFiles"
    /\ calls' = calls \ {call}
    /\ rootFiles' = listFilesAtPath(Slash, response)
    /\ loading' = FALSE
    /\ loaded' = {}
    /\ lastOk' = lastOk \cup {Slash}
    /\ UNCHANGED <<open, cluster, error, issued, errSrc, late>>

\* a listing of "/" fails: the catch and finally blocks of loadRootFiles
RootListingFails(call, e) ==
    /\ call.fn = "loadRootFiles"
    /\ calls' = calls \ {call}
    /\ error' = Some(kubectlFailure(e))
    /\ errSrc' = Some(Slash)
    /\ rootFiles' = <<>>
    /\ loading' = FALSE
    /\ loaded' = {}
    /\ lastOk' = lastOk \ {Slash}
    /\ UNCHANGED <<open, cluster, issued, late>>

\* toggleExpand(path), called for a rendered directory entry
ToggleExpand(entry) ==
    /\ entry.isDirectory
    /\ rootFiles' = toggleExpand_updateFiles(rootFiles, entry.path)
    /\ UNCHANGED <<open, cluster, loading, error, calls, issued, loaded, errSrc,
                   lastOk, late>>

\* loadChildren(path) up to the await of execFile, called for a rendered
\* directory entry (a rendered entry exists only with a cluster)
LoadChildren(entry) ==
    /\ entry.isDirectory
    /\ Requests < MaxRequests
    /\ rootFiles' = loadChildren_updateFiles(rootFiles, entry.path)
    /\ calls' = calls \cup {NewCall("loadChildren", entry.path)}
    /\ issued' = [issued EXCEPT ![entry.path] = @ + 1]
    /\ UNCHANGED <<open, cluster, loading, error, loaded, errSrc, lastOk, late>>

\* Click with the condition `!entry.expanded` alone: every expand loads again
Click_LoadOnEveryExpand(entry) ==
    /\ entry.isDirectory
    /\ LET load == ~entry.expanded IN
       /\ load => Requests < MaxRequests
       /\ rootFiles' = toggleExpand_updateFiles(
                           IF load THEN loadChildren_updateFiles(rootFiles, entry.path)
                           ELSE rootFiles,
                           entry.path)
       /\ calls' = IF load THEN calls \cup {NewCall("loadChildren", entry.path)}
                   ELSE calls
       /\ issued' = IF load THEN [issued EXCEPT ![entry.path] = @ + 1] ELSE issued
    /\ UNCHANGED <<open, cluster, loading, error, loaded, errSrc, lastOk, late>>

\* the onClick of a directory entry's button in FileTreeNode
Click(entry) ==
    /\ entry.isDirectory
    /\ LET load == ~entry.expanded /\ ~IsDefined(entry.children) IN
       /\ load => Requests < MaxRequests
       /\ rootFiles' = toggleExpand_updateFiles(
                           IF load THEN loadChildren_updateFiles(rootFiles, entry.path)
                           ELSE rootFiles,
                           entry.path)
       /\ calls' = IF load THEN calls \cup {NewCall("loadChildren", entry.path)}
                   ELSE calls
       /\ issued' = IF load THEN [issued EXCEPT ![entry.path] = @ + 1] ELSE issued
    /\ UNCHANGED <<open, cluster, loading, error, loaded, errSrc, lastOk, late>>

\* a listing of call.path returns successfully: the rest of the try block of
\* loadChildren
ChildrenListingSucceeds(call, response) ==
    /\ call.fn = "loadChildren"
    /\ calls' = calls \ {call}
    /\ rootFiles' = updateFilesWithChildren(rootFiles, call.path,
                                            listFilesAtPath(call.path, response))
    /\ loaded' = IF \E n \in AllEntries(rootFiles) : n.path = call.path
                 THEN KeptBelow(call.path) \cup {call.path}
                 ELSE loaded
    /\ lastOk' = lastOk \cup {call.path}
    /\ late' = IF \E n \in AllEntries(rootFiles) : n.path = call.path
               THEN late ELSE late \cup {call.path}
    /\ UNCHANGED <<open, cluster, loading, error, issued, errSrc>>

\* a listing of call.path fails: the catch block of loadChildren
ChildrenListingFails(call, e) ==
    /\ call.fn = "loadChildren"
    /\ calls' = calls \ {call}
    /\ error' = Some(kubectlFailure(e))
    /\ errSrc' = Some(call.path)
    /\ rootFiles' = updateFilesOnError(rootFiles, call.path)
    /\ lastOk' = lastOk \ {call.path}
    /\ late' = IF \E n \in AllEntries(rootFiles) : n.path = call.path
               THEN late ELSE late \cup {call.path}
    /\ UNCHANGED <<open, cluster, loading, issued, loaded>>

\* onClose: the dialog unmounts and its state is discarded; a listing that
\* returns later sets state of the unmounted component, which React ignores;
\* a downloadFile call sets no state and still shows its alert when it returns
CloseExplorer ==
    /\ open
    /\ open' = FALSE
    /\ cluster' = FALSE
    /\ rootFiles' = <<>>
    /\ loading' = FALSE
    /\ error' = Undefined
    /\ calls' = {c \in calls : c.fn = "downloadFile"}
    /\ issued' = [p \in PathUniverse |-> 0]
    /\ loaded' = {}
    /\ errSrc' = Undefined
    /\ lastOk' = {}
    /\ late' = {}

Next ==
    \/ OpenExplorer /\ UNCHANGED <<race, alerts, arg, res>>
    \/ ParentRerender /\ UNCHANGED <<race, alerts, arg, res>>
    \/ CloseExplorer /\ UNCHANGED <<race, alerts, arg, res>>
    \/ \E call \in calls : \E response \in Responses(Slash) :
          RootListingSucceeds(call, response) /\ UNCHANGED <<race, alerts, arg, res>>
    \/ \E call \in calls : \E e \in Failures :
          RootListingFails(call, e) /\ UNCHANGED <<race, alerts, arg, res>>
    \/ \E call \in calls : \E response \in Responses(call.path) :
          ChildrenListingSucceeds(call, response) /\ UNCHANGED <<race, alerts, arg, res>>
    \/ \E call \in calls : \E e \in Failures :
          ChildrenListingFails(call, e) /\ UNCHANGED <<race, alerts, arg, res>>
    \/ \E entry \in RenderedEntries : ToggleExpand(entry) /\ UNCHANGED <<race, alerts, arg, res>>
    \/ \E entry \in RenderedEntries : LoadChildren(entry) /\ UNCHANGED <<race, alerts, arg, res>>
    \/ \E entry \in RenderedEntries : Click(entry) /\ UNCHANGED <<race, alerts, arg, res>>

Spec == Init /\ [][Next]_vars

-----------------------------------------------------------------------------
(* Properties of the execFile-based dialog (specification Spec) *)

\* the entries of a snapshot that have the given path
NodesAt(files, path) == {n \in AllEntries(files) : n.path = path}

\* FileEntry declares no per-node error field
lastError(entry) ==
    IF "lastError" \in DOMAIN entry THEN entry.lastError ELSE Undefined

\* C1: Expand implies load.  Clicking the button of a rendered directory
\* entry that is collapsed and for whose path no listing was ever requested
\* issues a listing request for its path.
C1_ExpandImpliesLoad ==
    [][\A entry \in RenderedEntries :
          (/\ entry.isDirectory
           /\ ~entry.expanded
           /\ issued[entry.path] = 0
           /\ Click(entry))
          => issued'[entry.path] = 1]_vars

\* C2: At most one in-flight load per path.  No directory path ever has two
\* loadChildren calls suspended at their listing request.
C2_AtMostOneInFlight ==
    \A p \in PathUniverse \ {Slash} : Cardinality(InFlight(p)) <= 1

\* C5: A node's loading flag is true exactly while a listing request for its
\* path has been issued and has not completed.
C5_LoadingIffInFlight ==
    \A n \in AllEntries(rootFiles) : Truthy(n.loading) <=> InFlight(n.path) # {}

\* C6: A failed directory load records its message on the node (lastError),
\* leaves the node with loading = false and leaves the session-level error
\* unchanged.
C6_FailureIsPerNode ==
    [][\A call \in calls : \A e \in Failures :
          ChildrenListingFails(call, e)
          => /\ error' = error
             /\ \A n \in NodesAt(rootFiles', call.path) :
                   /\ lastError(n) = Some(kubectlFailure(e))
                   /\ ~Truthy(n.loading)]_vars

\* C7: While a load of p is in flight, or once the most recent load of p has
\* succeeded, no error of an earlier failed load of p is still recorded.
C7_ErrorClearedByNextLoad ==
    \A p \in PathUniverse \ {Slash} :
        (InFlight(p) # {} \/ p \in lastOk) => ~(IsDefined(error) /\ errSrc = Some(p))

\* C8: The root listing is requested exactly once per browsing session.
C8_RootRequestedOnce ==
    (open /\ cluster) => issued[Slash] = 1

\* C9: A failed root listing records a session-level error, empties the root
\* sequence and ends with loading = false; a successful one sets the root
\* sequence to the parsed entries of "/" and leaves the session error empty.
C9_RootLoadOutcome ==
    [][/\ \A call \in calls : \A e \in Failures :
             RootListingFails(call, e)
             => IsDefined(error') /\ rootFiles' = <<>> /\ loading' = FALSE
       /\ (OpenExplorer /\ ~cluster')
             => IsDefined(error') /\ rootFiles' = <<>> /\ loading' = FALSE
       /\ \A call \in calls : \A response \in Responses(Slash) :
             RootListingSucceeds(call, response)
             => /\ rootFiles' = parseListOutput(Some(response), Slash)
                /\ error' = Undefined
                /\ loading' = FALSE]_vars

\* the children arrays held by the entries with the given path
ChildrenAt(files, path) == {n.children : n \in NodesAt(files, path)}

\* C10: Children are cached across collapse.  A click on the button of an
\* entry whose listing has been applied leaves its children unchanged and
\* issues no listing request.
C10_ChildrenCached ==
    [][\A entry \in RenderedEntries :
          (entry.path \in loaded /\ Click(entry))
          => /\ issued' = issued
             /\ calls' = calls
             /\ ChildrenAt(rootFiles', entry.path) = ChildrenAt(rootFiles, entry.path)
             /\ \A n \in NodesAt(rootFiles', entry.path) : n.expanded = ~entry.expanded]_vars

\* C10 witness: "/a" was listed once, its child "/a/c" was rendered and
\* listed, and "/a" has been collapsed since, still holding its children
C10_Witness ==
    /\ PathA \in loaded
    /\ PathAC \in loaded
    /\ issued[PathA] = 1
    /\ \E n \in NodesAt(rootFiles, PathA) :
          /\ ~n.expanded
          /\ IsDefined(n.children)
          /\ \E c \in AllEntries(n.children[1]) : c.path = PathAC

-----------------------------------------------------------------------------
(* Two concurrent loads of the execFile-based dialog (specification SpecRace). *)
(* A behaviour starts in a state of Spec in which loadChildren(p) and         *)
(* loadChildren(q), p # q, have both been called and nothing else is in       *)
(* flight; its steps are the toggleExpand calls and the two completions.      *)
(* `race` records the snapshot at that start, the paths toggled an odd        *)
(* number of times since, and how each of the two loads ended.                *)

\* the snapshots the two loads start from: the listed root, and the listed
\* root with "/a" listed and expanded
RaceSnapshots ==
    LET listed == parseListOutput(Some(ListingRoot), Slash) IN
    { listed,
      toggleExpand_updateFiles(
          updateFilesWithChildren(listed, PathA, parseListOutput(Some(ListingA), PathA)),
          PathA) }

RaceStart(snapshot, p, q) ==
    LET listedA == NodesAt(snapshot, PathAC) # {} IN
    /\ open = TRUE
    /\ cluster = TRUE
    /\ rootFiles = loadChildren_updateFiles(loadChildren_updateFiles(snapshot, p), q)
    /\ loading = FALSE
    /\ error = Undefined
    /\ calls = { [fn |-> "loadChildren", path |-> p, k |-> 0],
                 [fn |-> "loadChildren", path |-> q, k |-> 0] }
    /\ issued = [x \in PathUniverse |->
                    (IF x = Slash \/ (x = PathA /\ listedA) THEN 1 ELSE 0)
                    + (IF x \in {p, q} THEN 1 ELSE 0)]
    /\ loaded = IF listedA THEN {PathA} ELSE {}
    /\ errSrc = Undefined
    /\ lastOk = IF listedA THEN {Slash, PathA} ELSE {Slash}
    /\ late = {}

RaceInit ==
    \E snapshot \in RaceSnapshots :
      \E ep \in FileTreeNodes(snapshot), eq \in FileTreeNodes(snapshot) :
        /\ ep.isDirectory /\ eq.isDirectory /\ ep.path # eq.path
        /\ RaceStart(snapshot, ep.path, eq.path)
        /\ race = Some([p |-> ep.path, q |-> eq.path, base |-> snapshot, odd |-> {},
                        done |-> [x \in {ep.path, eq.path} |-> "pending"],
                        got |-> [x \in {ep.path, eq.path} |-> <<>>]])
        /\ alerts = <<>>
        /\ arg = Undefined
        /\ res = Undefined

RaceToggle(entry) ==
    /\ ToggleExpand(entry)
    /\ race' = Some([race[1] EXCEPT !.odd = IF entry.path \in @ THEN @ \ {entry.path}
                                            ELSE @ \cup {entry.path}])
    /\ UNCHANGED <<alerts, arg, res>>

RaceSucceeds(call, response) ==
    /\ ChildrenListingSucceeds(call, response)
    /\ race' = Some([race[1] EXCEPT
                        !.done[call.path] = "ok",
                        !.got[call.path] = parseListOutput(Some(response), call.path)])
    /\ UNCHANGED <<alerts, arg, res>>

RaceFails(call, e) ==
    /\ ChildrenListingFails(call, e)
    /\ race' = Some([race[1] EXCEPT !.done[call.path] = "failed"])
    /\ UNCHANGED <<alerts, arg, res>>

RaceNext ==
    \/ \E entry \in RenderedEntries : RaceToggle(entry)
    \/ \E call \in calls : \E response \in Responses(call.path) : RaceSucceeds(call, response)
    \/ \E call \in calls : \E e \in Failures : RaceFails(call, e)

SpecRace == RaceInit /\ [][RaceNext]_vars

\* what a listing says about an entry
EntryData(n) ==
    [name |-> n.name, path |-> n.path, isDirectory |-> n.isDirectory,
     size |-> n.size, permissions |-> n.permissions]

RECURSIVE Entries(_)
Entries(files) ==
    IF files = <<>> THEN <<>> ELSE <<EntryData(Head(files))>> \o Entries(Tail(files))

\* the expanded flag the toggles since the start ask of the entry at path: the
\* flag at the start (false for an entry created since), flipped when the
\* path was toggled an odd number of times
ExpectedExpanded(r, path) ==
    LET before == {n.expanded : n \in NodesAt(r.base, path)}
        start == before = {TRUE}
    IN IF path \in r.odd THEN ~start ELSE start

\* both loads have completed
RaceOver == IsDefined(race) /\ calls = {}

\* path x ends the race holding the listing returned for it, not loading
HoldsItsListing(r, x) ==
    /\ NodesAt(rootFiles, x) # {}
    /\ \A n \in NodesAt(rootFiles, x) :
          /\ IsDefined(n.loading) /\ ~Truthy(n.loading)
          /\ r.done[x] = "ok" => Entries(n.children[1]) = Entries(r.got[x])

\* the toggles of path are reflected in the snapshot
ToggleReflected(r, path) ==
    /\ NodesAt(rootFiles, path) # {}
    /\ \A n \in NodesAt(rootFiles, path) : n.expanded = ExpectedExpanded(r, path)

\* C3 as claimed: once both loads have completed, p and q hold the children
\* returned for them, neither is loading, and every toggle made in between is
\* reflected in `expanded`.
C3_Independent ==
    RaceOver =>
        LET r == race[1] IN
        /\ HoldsItsListing(r, r.p)
        /\ HoldsItsListing(r, r.q)
        /\ \A path \in r.odd : ToggleReflected(r, path)

\* C3 amended: the same for p and q of which neither is an ancestor of the
\* other, and for the toggles of entries that are not below p or q.
C3_IndependentUnlessNested ==
    RaceOver =>
        LET r == race[1] IN
        (~IsAncestor(r.p, r.q) /\ ~IsAncestor(r.q, r.p)) =>
            /\ HoldsItsListing(r, r.p)
            /\ HoldsItsListing(r, r.q)
            /\ \A path \in r.odd :
                  (~IsAncestor(r.p, path) /\ ~IsAncestor(r.q, path))
                  => ToggleReflected(r, path)

\* C3 witness: "/b" and "/a/c" were loaded concurrently, one load succeeded
\* and one failed, and "/a/c" and its parent were toggled in between
C3_Witness ==
    /\ RaceOver
    /\ {race[1].p, race[1].q} = {PathB, PathAC}
    /\ \E x \in {PathB, PathAC} : race[1].done[x] = "ok"
    /\ \E x \in {PathB, PathAC} : race[1].done[x] = "failed"
    /\ {PathA, PathAC} \subseteq race[1].odd

-----------------------------------------------------------------------------
(* The sendCommand-based dialog (the first FileExplorerDialog of the file),  *)
(* specification SpecSend.  Its handlers pass setRootFiles a value computed   *)
(* from the `rootFiles` of the render that created them, so a suspended call  *)
(* keeps that snapshot (`snap`) and uses it when it resumes.                  *)

\* parseInt gave NaN: a size that is present (not <<>>) and is no number <<n>>
NaN == <<"N", "a", "N">>

\* the callback of .map((line) => ...) of the first parseListOutput: the line
\* is not trimmed, "." and ".." are kept, a NaN size is kept
send_parseLine(line, basePath) ==
    LET parts == splitWhitespace(line) IN
    IF Len(parts) < 9 THEN Undefined
    ELSE LET permissions == parts[1]
             parsed == parseInt(parts[5])
             size == IF IsDefined(parsed) THEN parsed ELSE NaN
             name == joinSpace(SubSeq(parts, 9, Len(parts)))
             isDirectory == startsWith(permissions, <<"d">>)
             fullPath == IF basePath = Slash THEN Slash \o name
                         ELSE basePath \o Slash \o name
         IN Some([name |-> name,
                  path |-> fullPath,
                  isDirectory |-> isDirectory,
                  size |-> IF isDirectory THEN Undefined ELSE size,
                  permissions |-> permissions,
                  expanded |-> FALSE,
                  children |-> IF isDirectory THEN Some(<<>>) ELSE Undefined,
                  loading |-> Undefined])

RECURSIVE send_parseLines(_, _)
send_parseLines(lines, basePath) ==
    IF lines = <<>> THEN <<>>
    ELSE LET line == Head(lines)
             rest == send_parseLines(Tail(lines), basePath)
         IN IF Len(trim(line)) > 0 /\ ~startsWith(line, Total)
            THEN send_parseLine(line, basePath) \o rest
            ELSE rest

\* the first parseListOutput, for an output that is a string
send_parseListOutput(text, basePath) == send_parseLines(splitLines(text), basePath)

\* the four tree updates of the first dialog have the text of the second's
send_toggleExpand_updateFiles(files, path) == toggleExpand_updateFiles(files, path)
send_loadChildren_updateFiles(files, path) == loadChildren_updateFiles(files, path)
send_updateFilesWithChildren(files, path, children) ==
    updateFilesWithChildren(files, path, children)
send_updateFilesOnError(files, path) == updateFilesOnError(files, path)

\* what `await sendCommand(command, { enter: true })` may give: a listing
\* text, or undefined (the command was only typed into the terminal)
SendResponses(path) ==
    IF path = Slash THEN {Some(ListingRoot), Undefined}
    ELSE IF path = PathA THEN {Some(ListingA), Undefined}
    ELSE {Some(ListingEmpty), Undefined}

\* what sendCommand may reject with
SendRejections == {"terminal is not ready"}

\* `output.split` of an output that is undefined
SplitOfUndefined == "Cannot read properties of undefined (reading 'split')"

SendNewCall(fn, path, snap) ==
    LET used == {c.k : c \in {d \in calls : d.fn = fn /\ d.path = path /\ d.snap = snap}}
        k == CHOOSE n \in 0..Cardinality(calls) : n \notin used
    IN [fn |-> fn, path |-> path, k |-> k, snap |-> snap]

\* the dialog has mounted and its effect has called loadFilesAtPath("/")
SendInit ==
    /\ open = TRUE
    /\ cluster = FALSE
    /\ rootFiles = <<>>
    /\ loading = TRUE
    /\ error = Undefined
    /\ calls = {[fn |-> "loadFilesAtPath", path |-> Slash, k |-> 0, snap |-> <<>>]}
    /\ issued = [p \in PathUniverse |-> IF p = Slash THEN 1 ELSE 0]
    /\ loaded = {}
    /\ errSrc = Undefined
    /\ lastOk = {}
    /\ late = {}
    /\ race = Undefined
    /\ alerts = <<>>
    /\ arg = Undefined
    /\ res = Undefined

\* sendCommand resolves for loadFilesAtPath("/")
SendRootReturns(call, response) ==
    /\ call.fn = "loadFilesAtPath"
    /\ calls' = calls \ {call}
    /\ IF IsDefined(response)
       THEN /\ rootFiles' = send_parseListOutput(response[1], Slash)
            /\ UNCHANGED error
       ELSE /\ error' = Some(SplitOfUndefined)
            /\ UNCHANGED rootFiles
    /\ loading' = FALSE
    /\ UNCHANGED <<open, cluster, issued, loaded, errSrc, lastOk, late, race, alerts, arg, res>>

\* sendCommand rejects for loadFilesAtPath("/")
SendRootRejects(call, message) ==
    /\ call.fn = "loadFilesAtPath"
    /\ calls' = calls \ {call}
    /\ error' = Some(message)
    /\ loading' = FALSE
    /\ UNCHANGED <<open, cluster, rootFiles, issued, loaded, errSrc, lastOk, late, race, alerts, arg, res>>

\* toggleExpand(path) of the first dialog
SendToggleExpand(entry) ==
    /\ entry.isDirectory
    /\ rootFiles' = send_toggleExpand_updateFiles(rootFiles, entry.path)
    /\ UNCHANGED <<open, cluster, loading, error, calls, issued, loaded, errSrc,
                   lastOk, late, race, alerts, arg, res>>

\* loadChildren(path) of the first dialog up to the await of sendCommand
SendLoadChildren(entry) ==
    /\ entry.isDirectory
    /\ entry.path \in PathUniverse
    /\ Requests - 1 < MaxSendLoads
    /\ rootFiles' = send_loadChildren_updateFiles(rootFiles, entry.path)
    /\ calls' = calls \cup {SendNewCall("loadChildren", entry.path, rootFiles)}
    /\ issued' = [issued EXCEPT ![entry.path] = @ + 1]
    /\ UNCHANGED <<open, cluster, loading, error, loaded, errSrc, lastOk, late, race, alerts, arg, res>>

\* the onClick of the first FileTreeNode: both handlers compute their value
\* from the same rendered rootFiles and the later setRootFiles wins
SendClick(entry) ==
    /\ entry.isDirectory
    /\ LET load == ~entry.expanded /\ ~IsDefined(entry.children) IN
       /\ load => (entry.path \in PathUniverse /\ Requests - 1 < MaxSendLoads)
       /\ rootFiles' = send_toggleExpand_updateFiles(rootFiles, entry.path)
       /\ calls' = IF load
                   THEN calls \cup {SendNewCall("loadChildren", entry.path, rootFiles)}
                   ELSE calls
       /\ issued' = IF load THEN [issued EXCEPT ![entry.path] = @ + 1] ELSE issued
    /\ UNCHANGED <<open, cluster, loading, error, loaded, errSrc, lastOk, late, race, alerts, arg, res>>

\* sendCommand resolves for loadChildren(call.path)
SendChildrenReturn(call, response) ==
    /\ call.fn = "loadChildren"
    /\ calls' = calls \ {call}
    /\ IF IsDefined(response)
       THEN /\ rootFiles' = send_updateFilesWithChildren(
                                call.snap, call.path,
                                send_parseListOutput(response[1], call.path))
            /\ UNCHANGED error
       ELSE /\ error' = Some(SplitOfUndefined)
            /\ rootFiles' = send_updateFilesOnError(call.snap, call.path)
    /\ UNCHANGED <<open, cluster, loading, issued, loaded, errSrc, lastOk, late, race, alerts, arg, res>>

\* sendCommand rejects for loadChildren(call.path)
SendChildrenRejects(call, message) ==
    /\ call.fn = "loadChildren"
    /\ calls' = calls \ {call}
    /\ error' = Some(message)
    /\ rootFiles' = send_updateFilesOnError(call.snap, call.path)
    /\ UNCHANGED <<open, cluster, loading, issued, loaded, errSrc, lastOk, late, race, alerts, arg, res>>

SendNext ==
    \/ \E call \in calls : \E response \in SendResponses(Slash) :
          SendRootReturns(call, response)
    \/ \E call \in calls : \E message \in SendRejections : SendRootRejects(call, message)
    \/ \E entry \in RenderedEntries : SendToggleExpand(entry)
    \/ \E entry \in RenderedEntries : SendLoadChildren(entry)
    \/ \E entry \in RenderedEntries : SendClick(entry)
    \/ \E call \in calls : \E response \in SendResponses(call.path) :
          SendChildrenReturn(call, response)
    \/ \E call \in calls : \E message \in SendRejections :
          SendChildrenRejects(call, message)

SpecSend == SendInit /\ [][SendNext]_vars

\* the completion of a loadChildren call is applied to the current snapshot
SendAppliedToCurrent ==
    /\ \A call \in calls : \A response \in SendResponses(call.path) :
          SendChildrenReturn(call, response)
          => rootFiles' = IF IsDefined(response)
                          THEN send_updateFilesWithChildren(
                                   rootFiles, call.path,
                                   send_parseListOutput(response[1], call.path))
                          ELSE send_updateFilesOnError(rootFiles, call.path)
    /\ \A call \in calls : \A message \in SendRejections :
          SendChildrenRejects(call, message)
          => rootFiles' = send_updateFilesOnError(rootFiles, call.path)

\* no entry has loading = true without a request for its path in flight
SendNoStaleLoading ==
    \A n \in AllEntries(rootFiles) : Truthy(n.loading) => InFlight(n.path) # {}

\* C4: in the sendCommand-based dialog every update is applied to the current
\* snapshot, so the completion of loadChildren(p) loses no change made since
\* the call, and no entry keeps loading = true after its request completed.
C4_NoLostUpdate ==
    /\ [][SendAppliedToCurrent]_vars
    /\ []SendNoStaleLoading

-----------------------------------------------------------------------------
(* The tree updates as functions of a snapshot and a path (specification     *)
(* Spec: the snapshots are the reachable values of rootFiles).               *)

PathZ == <<"/", "z">>
PathAZ == <<"/", "a", "/", "z">>

\* the paths the updates are called with
ProbePaths == PathUniverse \cup {PathZ, PathAZ, <<>>}

\* the paths of ProbePaths that no entry of files has
UnknownPaths(files) == {path \in ProbePaths : NodesAt(files, path) = {}}

\* children arrays handed to updateFilesWithChildren
ProbeChildren ==
    {parseListOutput(Some(text), PathZ) : text \in {ListingB, ListingEmpty, ListingA}}

\* the four updates leave a snapshot without a node for the path as it is
NoOpOnUnknownPath(files) ==
    \A path \in UnknownPaths(files) :
        /\ toggleExpand_updateFiles(files, path) = files
        /\ loadChildren_updateFiles(files, path) = files
        /\ updateFilesOnError(files, path) = files
        /\ \A children \in ProbeChildren :
              updateFilesWithChildren(files, path, children) = files

\* a completion of loadChildren whose node is gone leaves the snapshot as it is
LateResponseIsNoOp ==
    \A call \in calls :
        NodesAt(rootFiles, call.path) = {} =>
            /\ \A response \in Responses(call.path) :
                  ChildrenListingSucceeds(call, response) => rootFiles' = rootFiles
            /\ \A e \in Failures :
                  ChildrenListingFails(call, e) => rootFiles' = rootFiles

\* C11: No-op on unknown path.  For every reachable snapshot and every path
\* that matches no node of it, the toggle, begin-load, apply-children and
\* fail updates return a snapshot equal to the input, and so does a late
\* response of loadChildren whose node no longer exists.
C11_NoOpOnUnknownPath ==
    /\ []NoOpOnUnknownPath(rootFiles)
    /\ [][LateResponseIsNoOp]_vars

\* C11 witness: the listing of "/b" completed after a second root listing
\* had removed "/b", in a tree whose "/a" holds listed children
C11_Witness ==
    /\ PathB \in late
    /\ NodesAt(rootFiles, PathB) = {}
    /\ \E n \in NodesAt(rootFiles, PathA) :
          IsDefined(n.children) /\ Len(n.children[1]) > 0

\* the fields of an entry other than children
OwnFields(n) ==
    [name |-> n.name, path |-> n.path, isDirectory |-> n.isDirectory,
     size |-> n.size, permissions |-> n.permissions, expanded |-> n.expanded,
     loading |-> n.loading]

\* after is before with changes confined to the entries whose path is path
\* (their expanded, loading and children): the same entries in the same
\* order, every other entry with the same fields and, below it, the same
RECURSIVE SameExceptAt(_, _, _)
SameExceptAt(before, after, path) ==
    /\ Len(after) = Len(before)
    /\ \A i \in 1..Len(before) :
          LET b == before[i]
              a == after[i]
          IN IF b.path = path
             THEN EntryData(a) = EntryData(b)
             ELSE /\ OwnFields(a) = OwnFields(b)
                  /\ IsDefined(a.children) = IsDefined(b.children)
                  /\ IsDefined(b.children)
                        => SameExceptAt(b.children[1], a.children[1], path)

\* each of the four updates addressed to path is confined to the node at path
MutationIsLocal(files) ==
    \A path \in ProbePaths :
        /\ SameExceptAt(files, toggleExpand_updateFiles(files, path), path)
        /\ SameExceptAt(files, loadChildren_updateFiles(files, path), path)
        /\ SameExceptAt(files, updateFilesOnError(files, path), path)
        /\ \A children \in ProbeChildren :
              SameExceptAt(files, updateFilesWithChildren(files, path, children), path)

\* a failed load changes nothing of the tree outside the node it was for
FailedLoadIsLocal ==
    \A call \in calls : \A e \in Failures :
        ChildrenListingFails(call, e) => SameExceptAt(rootFiles, rootFiles', call.path)

\* C12: Mutation locality.  Each tree update addressed to path p changes
\* only fields of the node whose path is p; every other node keeps its
\* name, path, kind, size, expanded, loading and children, so a failed load
\* never alters sibling or ancestor state.
C12_MutationLocality ==
    /\ []MutationIsLocal(rootFiles)
    /\ [][FailedLoadIsLocal]_vars

\* C12 witness: the load of "/a/c" failed, in a tree where "/a/c" has the
\* sibling "/a/g", the expanded ancestor "/a" and the ancestor's sibling "/b"
C12_Witness ==
    /\ errSrc = Some(PathAC)
    /\ \E n \in NodesAt(rootFiles, PathAC) : n.loading = Some(FALSE)
    /\ \E n \in NodesAt(rootFiles, PathA) : n.expanded
    /\ NodesAt(rootFiles, PathB) # {}
    /\ NodesAt(rootFiles, PathA \o <<"/", "g">>) # {}

-----------------------------------------------------------------------------
(* downloadFile of the execFile-based dialog (specification SpecDownload):   *)
(* the dialog of Spec without the re-render of its parent, with the Download *)
(* button of the rendered file entries.                                      *)

\* index of the last "/" of s at or before i, else 0
RECURSIVE LastSlash(_, _)
LastSlash(s, i) ==
    IF i = 0 THEN 0
    ELSE IF s[i] = "/" THEN i
    ELSE LastSlash(s, i - 1)

Download == <<"d", "o", "w", "n", "l", "o", "a", "d">>

\* filePath.split("/").pop() || "download"
fileName(filePath) ==
    LET last == SubSeq(filePath, LastSlash(filePath, Len(filePath)) + 1, Len(filePath))
    IN IF last = <<>> THEN Download ELSE last

\* alert(`File downloaded to ~/Downloads/${fileName}`)
DownloadedAlert(filePath) == [downloaded |-> fileName(filePath)]

\* alert(`Download failed: ${message}`)
FailedAlert(message) == [failed |-> message]

DownloadCalls == {c \in calls : c.fn = "downloadFile"}

\* downloadFile(entry.path) up to the await of execFile, called by the
\* Download button of a rendered file entry; without a cluster execKubectl
\* throws before execFile is called and the catch block runs at once
DownloadFile(entry) ==
    /\ ~entry.isDirectory
    /\ Len(alerts) + Cardinality(DownloadCalls) < MaxDownloads
    /\ IF cluster
       THEN /\ calls' = calls \cup {NewCall("downloadFile", entry.path)}
            /\ UNCHANGED <<alerts, arg, res>>
       ELSE /\ alerts' = Append(alerts, FailedAlert(ClusterNotAvailable))
            /\ UNCHANGED calls
    /\ UNCHANGED <<open, cluster, rootFiles, loading, error, issued, loaded, errSrc,
                   lastOk, late, race, arg, res>>

\* `kubectl cp` returns successfully: the rest of the try block of downloadFile
DownloadSucceeds(call) ==
    /\ call.fn = "downloadFile"
    /\ calls' = calls \ {call}
    /\ alerts' = Append(alerts, DownloadedAlert(call.path))
    /\ UNCHANGED <<open, cluster, rootFiles, loading, error, issued, loaded, errSrc,
                   lastOk, late, race, arg, res>>

\* DownloadFails with the catch block of loadChildren: the message goes to
\* the session error and no alert is shown
DownloadFails_SetError(call, e) ==
    /\ call.fn = "downloadFile"
    /\ calls' = calls \ {call}
    /\ error' = IF open THEN Some(kubectlFailure(e)) ELSE error
    /\ UNCHANGED <<open, cluster, rootFiles, loading, alerts, issued, loaded, errSrc,
                   lastOk, late, race, arg, res>>

\* DownloadFails when execKubectl does not test result.callWasSuccessful:
\* nothing is thrown and the try block goes on to its alert
DownloadFails_ReportsSuccess(call, e) ==
    /\ call.fn = "downloadFile"
    /\ calls' = calls \ {call}
    /\ alerts' = Append(alerts, DownloadedAlert(call.path))
    /\ UNCHANGED <<open, cluster, rootFiles, loading, error, issued, loaded, errSrc,
                   lastOk, late, race, arg, res>>

\* `kubectl cp` fails: the catch block of downloadFile
DownloadFails(call, e) ==
    /\ call.fn = "downloadFile"
    /\ calls' = calls \ {call}
    /\ alerts' = Append(alerts, FailedAlert(kubectlFailure(e)))
    /\ UNCHANGED <<open, cluster, rootFiles, loading, error, issued, loaded, errSrc,
                   lastOk, late, race, arg, res>>

DownloadNext ==
    \/ OpenExplorer /\ UNCHANGED <<race, alerts, arg, res>>
    \/ CloseExplorer /\ UNCHANGED <<race, alerts, arg, res>>
    \/ \E call \in calls : \E response \in Responses(Slash) :
          RootListingSucceeds(call, response) /\ UNCHANGED <<race, alerts, arg, res>>
    \/ \E call \in calls : \E e \in Failures :
          RootListingFails(call, e) /\ UNCHANGED <<race, alerts, arg, res>>
    \/ \E call \in calls : \E response \in Responses(call.path) :
          ChildrenListingSucceeds(call, response) /\ UNCHANGED <<race, alerts, arg, res>>
    \/ \E call \in calls : \E e \in Failures :
          ChildrenListingFails(call, e) /\ UNCHANGED <<race, alerts, arg, res>>
    \/ \E entry \in RenderedEntries : ToggleExpand(entry) /\ UNCHANGED <<race, alerts, arg, res>>
    \/ \E entry \in RenderedEntries :
          /\ Requests < MaxDownloadRequests
          /\ LoadChildren(entry) /\ UNCHANGED <<race, alerts, arg, res>>
    \/ \E entry \in RenderedEntries : DownloadFile(entry)
    \/ \E call \in calls : DownloadSucceeds(call)
    \/ \E call \in calls : \E e \in Failures : DownloadFails(call, e)

SpecDownload == Init /\ [][DownloadNext]_vars

\* a step of downloadFile
DownloadStep ==
    \/ \E entry \in RenderedEntries : DownloadFile(entry)
    \/ \E call \in calls : DownloadSucceeds(call)
    \/ \E call \in calls : \E e \in Failures : DownloadFails(call, e)

\* C13: downloadFile never mutates the tree.  Every step of downloadFile,
\* whether the copy succeeds or fails and whatever loads and toggles it is
\* interleaved with, leaves the root sequence, the session loading flag and
\* the session error unchanged.
C13_DownloadLeavesTree ==
    [][DownloadStep => UNCHANGED <<rootFiles, loading, error>>]_vars

\* C13 witness: a download has failed while the load of "/a" was in flight
\* in a tree with "/a" expanded and loading
C13_Witness ==
    /\ Len(alerts) = 1
    /\ "failed" \in DOMAIN alerts[1]
    /\ InFlight(PathA) # {}
    /\ \E n \in NodesAt(rootFiles, PathA) : n.expanded /\ Truthy(n.loading)
    /\ error = Undefined

\* C14: Each downloadFile call reports exactly one outcome.  The step that
\* completes a call adds exactly one alert, the success alert when the copy
\* command succeeded and the failure alert with its message when it failed,
\* and no other step adds or removes an alert.
C14_OneOutcomePerDownload ==
    [][/\ Len(alerts') = Len(alerts) + Cardinality(DownloadCalls \ DownloadCalls')
       /\ SubSeq(alerts', 1, Len(alerts)) = alerts
       /\ \A call \in calls :
             DownloadSucceeds(call) => alerts' = Append(alerts, DownloadedAlert(call.path))
       /\ \A call \in calls : \A e \in Failures :
             DownloadFails(call, e)
             => alerts' = Append(alerts, FailedAlert(kubectlFailure(e)))]_vars

\* C14 witness: the copy of "/a/g" has completed and shown its success
\* alert, and the dialog is closed
C14_Witness ==
    /\ ~open
    /\ DownloadCalls = {}
    /\ alerts = <<[downloaded |-> <<"g">>]>>

-----------------------------------------------------------------------------
(* Retry of a failed load (specification Spec) *)

\* the most recent listing of path has completed and failed, and the node at
\* path is there, not loading
LoadFailed(path) ==
    /\ issued[path] > 0
    /\ InFlight(path) = {}
    /\ path \notin lastOk
    /\ \E n \in NodesAt(rootFiles, path) : n.loading = Some(FALSE)

\* C15: Manual retry of a failed load.  The failure of a load of p issues
\* no listing request, and expanding the node again retries: the click on
\* the collapsed control of a node whose load failed starts a new load of
\* its path.  (A click on an expanded control collapses the node, so a
\* sequence of clicks starts a load only with a click on the collapsed
\* control.)
C15_ManualRetry ==
    [][/\ \A call \in calls : \A e \in Failures :
             ChildrenListingFails(call, e) => issued' = issued
       /\ \A entry \in RenderedEntries :
             (/\ entry.isDirectory
              /\ ~entry.expanded
              /\ LoadFailed(entry.path)
              /\ Requests < MaxRequests
              /\ Click(entry))
             => /\ issued'[entry.path] = issued[entry.path] + 1
                /\ InFlight(entry.path)' # {}]_vars

-----------------------------------------------------------------------------
(* The listing command of listFilesAtPath and what the remote `sh -c` makes  *)
(* of it (specification SpecQuote).                                          *)

\* characters after the leading "/" of a path under study
MaxPathLen == 3

\* the backtick character (U+0060), which a string of this module cannot hold
Backtick == "U+0060"

\* a letter, space, double quote, backslash, dollar sign, backtick
PathChars == {"a", " ", "\"", "\\", "$", Backtick}

QuotePaths ==
    {Slash \o tail : tail \in UNION {[1..n -> PathChars] : n \in 0..MaxPathLen}}

\* path.replace(/"/g, "\\\""): a backslash before every double quote
RECURSIVE safePath(_)
safePath(path) ==
    IF path = <<>> THEN <<>>
    ELSE (IF Head(path) = "\"" THEN <<"\\", "\"">> ELSE <<Head(path)>>)
         \o safePath(Tail(path))

\* `ls -la -- "${safePath}"`
listCommand(path) ==
    <<"l", "s", " ", "-", "l", "a", " ", "-", "-", " ", "\"">>
    \o safePath(path) \o <<"\"">>

\* the shell reads `$` as the start of an expansion before a name or `$`
StartsExpansion(s, i) == i < Len(s) /\ s[i + 1] \in {"a", "$"}

\* the words `sh -c s` splits s[i..] into.  quoted: inside double quotes;
\* word, inWord: the word being read; words: the words read; clean: no
\* expansion or command substitution was met.  Inside double quotes a
\* backslash quotes `$`, backtick, double quote and backslash; outside it
\* quotes every character.
RECURSIVE shWords(_, _, _, _, _, _, _)
shWords(s, i, quoted, word, inWord, words, clean) ==
    IF i > Len(s)
    THEN [argv |-> IF inWord THEN Append(words, word) ELSE words,
          clean |-> clean,
          closed |-> ~quoted]
    ELSE LET c == s[i] IN
         IF c = "\\"
         THEN IF i = Len(s)
              THEN shWords(s, i + 1, quoted, Append(word, c), TRUE, words, clean)
              ELSE IF ~quoted \/ s[i + 1] \in {"$", Backtick, "\"", "\\"}
              THEN shWords(s, i + 2, quoted, Append(word, s[i + 1]), TRUE, words, clean)
              ELSE shWords(s, i + 1, quoted, Append(word, c), TRUE, words, clean)
         ELSE IF c = "\""
         THEN shWords(s, i + 1, ~quoted, word, TRUE, words, clean)
         ELSE IF c = Backtick \/ (c = "$" /\ StartsExpansion(s, i))
         THEN shWords(s, i + 1, quoted, word, TRUE, words, FALSE)
         ELSE IF c = " " /\ ~quoted
         THEN shWords(s, i + 1, quoted, <<>>, FALSE,
                      IF inWord THEN Append(words, word) ELSE words, clean)
         ELSE shWords(s, i + 1, quoted, Append(word, c), TRUE, words, clean)

\* what `sh -c command` runs
shArgs(command) == shWords(command, 1, FALSE, <<>>, FALSE, <<>>, TRUE)

QuoteInit ==
    /\ Unmounted
    /\ arg \in {Some(path) : path \in QuotePaths}
    /\ res = Undefined

\* listFilesAtPath(arg) builds its command and the remote shell reads it
RunListCommand ==
    /\ res = Undefined
    /\ res' = Some(shArgs(listCommand(arg[1])))
    /\ UNCHANGED <<open, cluster, rootFiles, loading, error, calls, issued, loaded,
                   errSrc, lastOk, late, race, alerts, arg>>

QuoteNext == RunListCommand

SpecQuote == QuoteInit /\ [][QuoteNext]_vars

\* C16: The remote path round-trips through the listing command.  The
\* remote shell runs ls with the arguments -la, -- and exactly one more,
\* equal to the path, and interprets no character of the path.
C16_PathRoundTrips ==
    IsDefined(res) =>
        res[1] = [argv |-> << <<"l", "s">>, <<"-", "l", "a">>, <<"-", "-">>, arg[1] >>,
                  clean |-> TRUE,
                  closed |-> TRUE]

-----------------------------------------------------------------------------
(* The entries of a listing *)

\* C17: No node named `.` or `..` ever appears.  In every reachable
\* snapshot, of the execFile-based and of the sendCommand-based dialog, no
\* entry of the root listing or of a loaded child list has one of these
\* names.
C17_NoDotEntries ==
    \A n \in AllEntries(rootFiles) : n.name \notin {Dot, DotDot}

-----------------------------------------------------------------------------
(* parseListOutput of the execFile-based dialog as a function of the raw     *)
(* text (specification SpecParse).  A text is written down as its lines, a   *)
(* line as its tokens with the whitespace around and between them, together  *)
(* with what the listing says of the line: whether it names an entry (keep), *)
(* and the entry's kind, size and name.                                      *)

\* lines of a text under study
MaxLines == 2

\* the summary line of `ls -la`
LineTotal ==
    [lead |-> <<>>, sep |-> <<" ">>, trail |-> <<>>,
     tokens |-> <<<<"t", "o", "t", "a", "l">>, <<"8">>>>,
     keep |-> FALSE]

\* a line of two spaces
LineBlank ==
    [lead |-> <<" ", " ">>, sep |-> <<" ">>, trail |-> <<>>,
     tokens |-> <<>>,
     keep |-> FALSE]

\* the entry of the directory itself
LineDot ==
    [lead |-> <<>>, sep |-> <<" ">>, trail |-> <<>>,
     tokens |-> <<<<"d", "r", "w", "x">>, <<"1">>, <<"r">>, <<"r">>, <<"6", "4">>, <<"J">>, <<"1">>, <<"0">>, <<".">>>>,
     keep |-> FALSE]

\* the entry of the parent directory, ending with a carriage return
LineDotDot ==
    [lead |-> <<>>, sep |-> <<" ">>, trail |-> <<"\r">>,
     tokens |-> <<<<"d", "r", "w", "x">>, <<"1">>, <<"r">>, <<"r">>, <<"6", "4">>, <<"J">>, <<"1">>, <<"0">>, <<".", ".">>>>,
     keep |-> FALSE]

\* the directory `a`, columns separated by a tab
LineDir ==
    [lead |-> <<>>, sep |-> <<"\t">>, trail |-> <<>>,
     tokens |-> <<<<"d", "r", "w", "x">>, <<"1">>, <<"r">>, <<"r">>, <<"6", "4">>, <<"J">>, <<"1">>, <<"0">>, <<"a">>>>,
     keep |-> TRUE,
     isDirectory |-> TRUE, size |-> Undefined,
     name |-> <<"a">>]

\* the file `h i` of 120 bytes, indented and ending with a carriage return
LineFile ==
    [lead |-> <<" ", " ">>, sep |-> <<" ">>, trail |-> <<"\r">>,
     tokens |-> <<<<"-", "r", "w">>, <<"1">>, <<"r">>, <<"r">>, <<"1", "2", "0">>, <<"J">>, <<"1">>, <<"0">>, <<"h">>, <<"i">>>>,
     keep |-> TRUE,
     isDirectory |-> FALSE, size |-> Some(120),
     name |-> <<"h", " ", "i">>]

\* a line of an error message: three tokens
LineGarbage ==
    [lead |-> <<>>, sep |-> <<" ">>, trail |-> <<>>,
     tokens |-> <<<<"l", "s", ":">>, <<"c", "a", "n", "n", "o", "t">>, <<"o", "p", "e", "n">>>>,
     keep |-> FALSE]

\* a character device: `major, minor` in place of the size, so that token 4
\* is `1,`, not a number, and the name column is tokens 9..
LineDevice ==
    [lead |-> <<>>, sep |-> <<" ">>, trail |-> <<>>,
     tokens |-> <<<<"c", "r", "w", "-">>, <<"1">>, <<"r">>, <<"r">>, <<"1", ",">>, <<"3">>, <<"J">>, <<"1">>, <<"0">>, <<"n">>>>,
     keep |-> TRUE,
     isDirectory |-> FALSE, size |-> Undefined,
     name |-> <<"0", " ", "n">>,
     listed |-> <<"n">>]

\* a file whose size column is `?`, columns separated by two spaces
LineNoSize ==
    [lead |-> <<>>, sep |-> <<" ", " ">>, trail |-> <<>>,
     tokens |-> <<<<"-", "r", "w">>, <<"1">>, <<"r">>, <<"r">>, <<"?">>, <<"J">>, <<"1">>, <<"0">>, <<"g">>>>,
     keep |-> TRUE,
     isDirectory |-> FALSE, size |-> Undefined,
     name |-> <<"g">>]

\* the file `h  i`, with two spaces in its name, of 7 bytes; `ls -la` pads
\* its columns, here with two spaces
LineFileWide ==
    [lead |-> <<>>, sep |-> <<" ", " ">>, trail |-> <<>>,
     tokens |-> <<<<"-", "r", "w">>, <<"1">>, <<"r">>, <<"r">>, <<"7">>, <<"J">>, <<"1">>, <<"0">>, <<"h">>, <<"i">>>>,
     keep |-> TRUE,
     isDirectory |-> FALSE, size |-> Some(7),
     name |-> <<"h", " ", "i">>,
     listed |-> <<"h", " ", " ", "i">>]

ListingLines ==
    {LineTotal, LineBlank, LineDot, LineDotDot, LineDir, LineFile, LineGarbage,
     LineDevice, LineNoSize, LineFileWide}

\* the tokens joined by sep
RECURSIVE joinWith(_, _)
joinWith(tokens, sep) ==
    IF tokens = <<>> THEN <<>>
    ELSE IF Len(tokens) = 1 THEN tokens[1]
    ELSE tokens[1] \o sep \o joinWith(Tail(tokens), sep)

\* the characters of a line
LineText(l) == l.lead \o joinWith(l.tokens, l.sep) \o l.trail

\* the raw text of a sequence of lines
RECURSIVE TextOf(_)
TextOf(lines) ==
    IF lines = <<>> THEN <<>>
    ELSE IF Len(lines) = 1 THEN LineText(lines[1])
    ELSE LineText(lines[1]) \o <<"\n">> \o TextOf(Tail(lines))

\* the arguments of parseListOutput: a response that is no string, or the
\* text of up to MaxLines lines, for the base path "/" or "/a"
ParseArgs ==
    {[lines |-> <<>>, output |-> Undefined, basePath |-> basePath] :
        basePath \in {Slash, PathA}}
    \cup {[lines |-> lines, output |-> Some(TextOf(lines)), basePath |-> basePath] :
            lines \in UNION {[1..n -> ListingLines] : n \in 0..MaxLines},
            basePath \in {Slash, PathA}}

ParseInit ==
    /\ Unmounted
    /\ arg \in {Some(a) : a \in ParseArgs}
    /\ res = Undefined

\* parseListOutput(output, basePath) is called and returns
ParseListing ==
    /\ res = Undefined
    /\ res' = Some(parseListOutput(arg[1].output, arg[1].basePath))
    /\ UNCHANGED <<open, cluster, rootFiles, loading, error, calls, issued, loaded,
                   errSrc, lastOk, late, race, alerts, arg>>

ParseNext == ParseListing

SpecParse == ParseInit /\ [][ParseNext]_vars

\* the lines of a text that name an entry, in order
RECURSIVE KeptLines(_)
KeptLines(lines) ==
    IF lines = <<>> THEN <<>>
    ELSE (IF Head(lines).keep THEN <<Head(lines)>> ELSE <<>>) \o KeptLines(Tail(lines))

\* C18: Malformed line tolerance.  For every raw text parseListOutput
\* returns a sequence (it never raises): blank lines, lines starting with
\* `total`, lines of fewer than 9 tokens and the `.` and `..` lines are
\* dropped, every other line gives one entry, in the order of the lines; a
\* response that is empty or no string gives the empty sequence.
C18_MalformedLineTolerance ==
    IsDefined(res) =>
        LET kept == KeptLines(arg[1].lines)
            entries == res[1]
        IN /\ Len(entries) = Len(kept)
           /\ \A i \in 1..Len(kept) : entries[i].permissions = kept[i].tokens[1]
           /\ (~IsDefined(arg[1].output) \/ arg[1].output[1] = <<>>) => entries = <<>>

\* C18 witness: the text of a three-token garbage line and a well-formed
\* line has been parsed to a single entry
C18_Witness ==
    /\ IsDefined(res)
    /\ arg[1].lines = <<LineGarbage, LineFile>>
    /\ Len(res[1]) = 1

\* C19: Directory classification.  The entry of a kept line is a directory
\* with size undefined if its permissions start with `d`; otherwise it is a
\* file whose size is the integer value of token 4, or undefined when
\* token 4 is not numeric.
C19_DirectoryClassification ==
    IsDefined(res) =>
        LET kept == KeptLines(arg[1].lines)
            entries == res[1]
        IN Len(entries) = Len(kept) =>
              \A i \in 1..Len(kept) :
                 /\ entries[i].isDirectory = kept[i].isDirectory
                 /\ entries[i].size = kept[i].size

\* C20: Name and path derivation.  The name of the entry of a kept line is
\* its tokens 8..end joined by single spaces, and its path is "/" + name
\* under the parent "/" and parent + "/" + name under another parent.
C20_NameAndPath ==
    IsDefined(res) =>
        LET kept == KeptLines(arg[1].lines)
            entries == res[1]
            parent == arg[1].basePath
        IN Len(entries) = Len(kept) =>
              \A i \in 1..Len(kept) :
                 /\ entries[i].name = kept[i].name
                 /\ entries[i].path = IF parent = <<"/">> THEN <<"/">> \o kept[i].name
                                      ELSE parent \o <<"/">> \o kept[i].name

\* C20 witness: the line of the file `h i` has been parsed under "/a" and
\* under "/"
C20_Witness ==
    /\ IsDefined(res)
    /\ arg[1].lines = <<LineDir, LineFile>>
    /\ \/ arg[1].basePath = PathA /\ res[1][2].path = <<"/", "a", "/", "h", " ", "i">>
       \/ arg[1].basePath = Slash /\ res[1][2].path = <<"/", "h", " ", "i">>

-----------------------------------------------------------------------------
(* Invariants of the tree (specifications Spec and SpecParse) *)

\* C21: Children undefined until loaded.  In every snapshot, a node whose
\* children is defined has had a load of its path completed successfully
\* since the node was created.
C21_ChildrenDefinedImpliesLoaded ==
    \A n \in AllEntries(rootFiles) : IsDefined(n.children) => n.path \in loaded

\* C22: File nodes stay inert.  In every snapshot, every node that is not a
\* directory has children undefined, is not expanded and is not loading.
C22_FileNodesInert ==
    \A n \in AllEntries(rootFiles) :
       ~n.isDirectory =>
          /\ ~IsDefined(n.children)
          /\ ~n.expanded
          /\ n.loading # Some(TRUE)

\* the name of an entry as the listing holds it
ListedName(l) == IF "listed" \in DOMAIN l THEN l.listed ELSE l.name

\* C23: Paths are unique.  For every text whose listed names are pairwise
\* distinct, names that differ only in the number of consecutive spaces
\* included, no two parsed entries have the same path.
C23_PathsUnique ==
    IsDefined(res) =>
        LET kept == KeptLines(arg[1].lines)
            entries == res[1]
        IN (\A i, j \in 1..Len(kept) :
               i # j => ListedName(kept[i]) # ListedName(kept[j]))
           => \A i, j \in 1..Len(entries) :
                 i # j => entries[i].path # entries[j].path

\* the completion of a load of call.path with the given response installs the
\* entries of the response as the children of the node at call.path
InstallsListing(call, response) ==
    \A n \in NodesAt(rootFiles', call.path) :
       /\ IsDefined(n.children)
       /\ n.children[1] = parseListOutput(Some(response), call.path)
       /\ \A i \in 1..Len(n.children[1]) :
             LET c == n.children[1][i]
             IN /\ ~c.expanded
                /\ c.loading # Some(TRUE)
                /\ IsDefined(c.children) => c.children[1] = <<>>

\* C24: Load replaces children.  Right after a successful load of p
\* completes, the children of p are exactly the entries parsed from the
\* response, in listing order, each collapsed, not loading and without
\* listed children of its own: nothing of the previous children is kept.
C24_LoadReplacesChildren ==
    [][\A call \in calls : \A response \in Responses(call.path) :
          (ChildrenListingSucceeds(call, response) /\ NodesAt(rootFiles, call.path) # {})
          => InstallsListing(call, response)]_vars

\* C24 witness: "/a/c" was listed under "/a", then a second load of "/a"
\* completed and installed a new "/a/c", for which no listing is held
C24_Witness ==
    /\ issued[PathA] = 2
    /\ InFlight(PathA) = {}
    /\ PathA \in loaded
    /\ PathAC \in lastOk
    /\ PathAC \notin loaded
    /\ \E n \in NodesAt(rootFiles, PathAC) : n.children = Some(<<>>) /\ ~n.expanded

\* after holds, position by position, the entries of before with the data
\* their listing gave them; the children of the entry at the path `replaced`
\* (if any) are new entries and are not compared
RECURSIVE DataKept(_, _, _)
DataKept(before, after, replaced) ==
    /\ Len(after) = Len(before)
    /\ \A i \in 1..Len(before) :
          LET b == before[i]
              a == after[i]
          IN /\ EntryData(a) = EntryData(b)
             /\ (IsDefined(b.children) /\ replaced # Some(b.path))
                   => /\ IsDefined(a.children)
                      /\ DataKept(b.children[1], a.children[1], replaced)

\* C25: Entry data is immutable.  toggleExpand and the three updates of
\* loadChildren leave the name, path, kind, size and permissions of every
\* node as its listing created them; only the children installed by a
\* completed load are new nodes.
C25_EntryDataImmutable ==
    [][/\ \A entry \in RenderedEntries :
             (ToggleExpand(entry) \/ LoadChildren(entry) \/ Click(entry))
             => DataKept(rootFiles, rootFiles', Undefined)
       /\ \A call \in calls : \A e \in Failures :
             ChildrenListingFails(call, e) => DataKept(rootFiles, rootFiles', Undefined)
       /\ \A call \in calls : \A response \in Responses(call.path) :
             ChildrenListingSucceeds(call, response)
             => DataKept(rootFiles, rootFiles', Some(call.path))]_vars

\* C25 witness: "/a" has been toggled and loaded and still is the directory
\* `a` with permissions `drwx`, next to the file "/f" of 120 bytes
C25_Witness ==
    /\ \E n \in NodesAt(rootFiles, PathA) :
          /\ n.expanded
          /\ n.loading = Some(FALSE)
          /\ EntryData(n) = [name |-> <<"a">>, path |-> PathA, isDirectory |-> TRUE,
                             size |-> Undefined, permissions |-> DirPerm]
    /\ \E n \in NodesAt(rootFiles, <<"/", "f">>) : n.size = Some(120)

\* toggleExpand(path) applied twice to a snapshot gives the snapshot back
ToggleTwiceIsIdentity(files) ==
    \A path \in ProbePaths :
        toggleExpand_updateFiles(toggleExpand_updateFiles(files, path), path) = files

\* a toggleExpand call is undone by a second call for the same path
ToggleIsUndone ==
    \A entry \in RenderedEntries :
        ToggleExpand(entry) => toggleExpand_updateFiles(rootFiles', entry.path) = rootFiles

\* C27: toggleExpand is an involution.  For every snapshot and every path,
\* toggleExpand applied twice with no update in between gives a snapshot
\* equal to the first: the same expanded flags, children and loading flags.
C27_ToggleInvolution ==
    /\ []ToggleTwiceIsIdentity(rootFiles)
    /\ [][ToggleIsUndone]_vars

\* C27 witness: a snapshot in which "/a" is expanded, its child "/a/c" is
\* expanded too and "/b" is loading
C27_Witness ==
    /\ \E n \in NodesAt(rootFiles, PathA) : n.expanded
    /\ \E n \in NodesAt(rootFiles, PathAC) : n.expanded
    /\ \E n \in NodesAt(rootFiles, PathB) : n.loading = Some(TRUE)

-----------------------------------------------------------------------------
(* Termination of the loads (specification SpecLive): the dialog of Spec     *)
(* that stays open, in which every listing command that was issued returns.  *)

\* listing requests of a session under study
MaxLiveRequests == 3

\* execFile resolves for one of the suspended calls, with output or an error
ListingReturns ==
    \/ \E call \in calls : \E response \in Responses(Slash) :
          RootListingSucceeds(call, response) /\ UNCHANGED <<race, alerts, arg, res>>
    \/ \E call \in calls : \E e \in Failures :
          RootListingFails(call, e) /\ UNCHANGED <<race, alerts, arg, res>>
    \/ \E call \in calls : \E response \in Responses(call.path) :
          ChildrenListingSucceeds(call, response) /\ UNCHANGED <<race, alerts, arg, res>>
    \/ \E call \in calls : \E e \in Failures :
          ChildrenListingFails(call, e) /\ UNCHANGED <<race, alerts, arg, res>>

LiveNext ==
    \/ OpenExplorer /\ UNCHANGED <<race, alerts, arg, res>>
    \/ /\ Requests < MaxLiveRequests
       /\ ParentRerender /\ UNCHANGED <<race, alerts, arg, res>>
    \/ ListingReturns
    \/ \E entry \in RenderedEntries : ToggleExpand(entry) /\ UNCHANGED <<race, alerts, arg, res>>
    \/ \E entry \in RenderedEntries :
          /\ Requests < MaxLiveRequests
          /\ LoadChildren(entry) /\ UNCHANGED <<race, alerts, arg, res>>

\* every issued listing command eventually returns: a session issues
\* finitely many, so it is enough that a return is never put off forever
\* while some call is suspended
SpecLive == Init /\ [][LiveNext]_vars /\ WF_vars(ListingReturns)

\* an entry with the given path shows the hourglass
NodeLoading(path) == \E n \in NodesAt(rootFiles, path) : n.loading = Some(TRUE)

\* C26: Loads terminate.  While the dialog stays open and every listing
\* command returns, a node that is loading is eventually not loading, and
\* the session-level loading flag set by a root load eventually is false.
C26_LoadsTerminate ==
    /\ loading ~> ~loading
    /\ \A path \in PathUniverse : NodeLoading(path) ~> ~NodeLoading(path)

\* C26 witness: the loads of "/a" and of "/" have started and ended: "/a"
\* was loading and is not, the session is not loading, nothing is suspended
C26_Witness ==
    /\ issued[PathA] >= 1
    /\ calls = {}
    /\ ~loading
    /\ \E n \in NodesAt(rootFiles, PathA) : n.loading = Some(FALSE)

====
